---- MODULE Spec2Model ----
(***************************************************************************)
(* ManifoldBox: the scene registry of boxy.py, the compile and export      *)
(* entry points of main.py (create_glb_from_script behind /compile and     *)
(* /glb, the /export handler export_file, the command-line                 *)
(* export_from_script), and the live-reload notifier (websocket_endpoint,  *)
(* notify_clients, watch_file).                                            *)
(*                                                                         *)
(* Spec     : the registry and the compile/export handlers on one asyncio  *)
(*            event loop.                                                  *)
(* ScriptSpec : one execution of a user script, statement by statement.    *)
(* LiveSpec : the websocket handlers and the file watcher task.            *)
(* LibSpec  : the calls a script makes into boxy.py: coordinate            *)
(*            normalizers, primitives, operators, hull/union, uvBoxMap.    *)
(***************************************************************************)
EXTENDS Integers, Sequences, FiniteSets, TLC

\* ---------------------------------------------------------------- bounds
\* longest registry a modelled script builds
MaxObjects == 2
\* most Solid objects alive in one script execution
MaxSolids == 2
\* websocket connections over the life of the server
NClients == 3
\* file changes the watcher sees
MaxChanges == 2

\* largest absolute value of a coordinate a modelled script passes
MaxCoord == 1

\* most operands of one union(...) or hull(...) call
MaxElems == 3

\* ------------------------------------------------------------ input sets
None == "None"

\* concurrent HTTP requests / calls of an entry point
Requests == {"r1", "r2"}

\* "glb" is create_glb_from_script behind compile_file and serve_glb, whose
\* bodies differ only in how they wrap the bytes; "export" is export_file;
\* "cli" is export_from_script
GlbKinds == {"glb"}
ExportKinds == {"export", "cli"}
Kinds == GlbKinds \cup ExportKinds

\* extensions accepted by both exporters, and the ones a caller may ask for
SupportedExts == {"stl", "obj", "glb"}
Exts == {"stl", "glb", "txt"}

\* producer functions of a user script (donut.py: glass, superhull)
FNames == {"glass", "superhull"}
\* the name= argument of add(): absent, empty, or a name
NameArgs == {None, "", "glass"}
\* the material argument of add(); "bare" is the undecorated use @add
MaterialArgs == {"bare", "glass"}
\* the uvMapper= argument of add()
MapperArgs == {None, "donutUv"}
\* argument of set_default_segments (donut.py: set_default_segments(100))
SegmentArgs == {100}

VARIABLES
    proc,               \* "up" | "exited": the Python process
    running,            \* the request whose handler holds the event loop, or None
    objects,            \* boxy.objects: sequence of (obj, material, name)
    default_segments,   \* boxy.default_segments
    uvMapperOf,         \* the uvMapper attribute of every live O3D, by identity
    binding,            \* user module namespace: what each producer name is bound to
    override,           \* the uvMapper= argument each registration was made with
    dropped,            \* registrations the last reload + clear threw away
    droppedSegments,    \* default_segments the last reload threw away
    op,                 \* the last statement the user script executed (ScriptSpec)
    pc,                 \* position of each request in its handler
    kind,               \* which entry point serves the request
    fmt,                \* file_ext and separate_files of an export
    loaded,             \* how the script execution ended
    made,               \* the registrations the running script made, in order
    idx,                \* loop position of the triangulating loop
    scene,              \* trimesh.Scene being assembled
    fault,              \* which later stage raised, and at which registration
    written,            \* files written by an export
    result,             \* what the entry point returned
    connected_clients,  \* main.connected_clients
    sock,               \* per websocket: "new" | "open" | "closed"
    wsPc,               \* per websocket_endpoint coroutine: "none" | "receiving" | "ended" | "failed"
    watcher,            \* watch_file task: "waiting" | "sending" | "dead"
    changes,            \* file changes so far
    cur,                \* the client notify_clients is awaiting send_text on
    visited,            \* clients the set iterator of notify_clients has yielded
    iterSize,           \* size of the set when the iteration began
    iterSnap,           \* content of the set when the iteration began
    disconnected,       \* notify_clients' local list
    audience,           \* viewers connected when the last file change happened
    delivered,          \* viewers sent file_changed for that change
    wsError,            \* websocket handlers that died on an unhandled KeyError
    call,               \* the boxy call a script statement makes (LibSpec)
    kernel,             \* the manifold3d calls that call issued, in order
    out                 \* what the call returned or raised

regVars == <<objects, default_segments, uvMapperOf, binding, override>>
reqVars == <<pc, kind, fmt, loaded, made, idx, scene, fault, written, result>>
coreVars == <<proc, running, regVars, reqVars>>
liveVars == <<connected_clients, sock, wsPc, watcher, changes, cur,
              visited, iterSize, iterSnap, disconnected, audience, delivered,
              wsError>>
libVars == <<call, kernel, out>>
vars == <<coreVars, dropped, droppedSegments, op, liveVars, libVars>>

\* ------------------------------------------------------------- boxy.py
\* add_object: objects.append((obj, material, name))
add_object(objs, obj, material, name) ==
    Append(objs, [obj |-> obj, material |-> material, name |-> name])

\* clear_objects: global objects; objects = []
clear_objects(objs) == <<>>

\* importlib.reload(boxy) executes boxy.py again: objects = []
reloaded_objects(objs) == <<>>

\* a reload that keeps the module's globals
kept_segments(n) == n

\* importlib.reload(boxy) executes boxy.py again: default_segments = 0
reloaded_segments(n) == 0

\* set_default_segments(n)
set_default_segments(old, n) == n

\* an entry point that forgets both importlib.reload(boxy) and clear_objects()
StaleRegistry(objs) == objs

\* importlib.reload(boxy); boxy.clear_objects()
FreshRegistry(objs) == clear_objects(reloaded_objects(objs))

\* O3D.__init__: self.uvMapper = uvBoxMap; the new object is the last of the heap
NewSolid(heap) == Append(heap, "uvBoxMap")

\* add(): `if isinstance(material, str)` is false for the bare use @add, where
\* material is the function itself and becomes 'basic'
AddMaterial(m) == IF m = "bare" THEN "basic" ELSE m

\* a registration name that ignores the function's own name
RegNameSuppliedOnly(name, fname) == name

\* sub(): name=name or func.__name__  (None and '' are both falsy)
RegName(name, fname) == IF name \in {None, ""} THEN fname ELSE name

\* sub(): if uvMapper is not None: obj.uvMapper = uvMapper
SetMapper(heap, obj, u) == IF u # None THEN [heap EXCEPT ![obj] = u] ELSE heap

\* sub(): return func -- the decorated name stays bound to the function
DecoratorReturn == "func"

\* ------------------------------------------------------------- main.py
NoFmt == [ext |-> "glb", separate |-> FALSE]
NoFault == [stage |-> "none", at |-> 0]
NoOp == [type |-> "none", f |-> None, name |-> None, material |-> None]
\* the record of the last statement is kept only where a property reads it
OpOff == [NoOp EXCEPT !.type = "off"]
Observe(record) == IF op = OpOff THEN OpOff ELSE record
NoResult == [kind |-> "none", meshes |-> <<>>, msg |-> ""]

\* trimesh.creation.box(extents=[1, 1, 1])
UnitCube == [obj |-> 0, material |-> None, name |-> None, uv |-> None]

\* create_fallback_glb
Fallback == [kind |-> "fallback", meshes |-> <<UnitCube>>, msg |-> ""]

ErrorResult(msg) == [kind |-> "error", meshes |-> <<>>, msg |-> msg]

\* one pass of the triangulating loop: to_mesh, unique_faces,
\* remove_unreferenced_vertices and, for GLB only, calculate_vertex_normals,
\* mobj.uvMapper(mesh) and the material; node_name is the registration's name
FinishedMesh(reg, ext) ==
    [obj      |-> reg.obj,
     material |-> IF ext = "glb" THEN reg.material ELSE None,
     name     |-> reg.name,
     uv       |-> IF ext = "glb" THEN uvMapperOf[reg.obj] ELSE None]

FinishedAll(objs, ext) == [i \in 1..Len(objs) |-> FinishedMesh(objs[i], ext)]

\* a scene that keeps one geometry per node name
SceneAddByName(sc, mesh) ==
    IF \E i \in 1..Len(sc) : sc[i].name = mesh.name
    THEN [i \in 1..Len(sc) |-> IF sc[i].name = mesh.name THEN mesh ELSE sc[i]]
    ELSE Append(sc, mesh)

\* scene.add_geometry(mesh, node_name=name)
SceneAdd(sc, mesh) == Append(sc, mesh)

\* an orchestrator that gives up on a failed script
AbortOnScriptException(k) == "abort"

\* the except clause around exec_module: create_glb_from_script prints and goes
\* on to the loop; export_file and export_from_script return an error
AfterScriptException(k) == IF k \in GlbKinds THEN "collect" ELSE "abort"

\* an orchestrator that exports the empty scene
EmptySceneExported(k) == [kind |-> "scene", meshes |-> <<>>, msg |-> ""]

\* len(boxy.objects) == 0: create_glb_from_script returns the fallback cube,
\* export_file and export_from_script an error
EmptyOutcome(k) ==
    IF k \in GlbKinds THEN Fallback ELSE ErrorResult("No objects found in script")

\* handlers that hand the compile to another thread and await it
CompileYieldsToLoop == TRUE

\* compile_file, serve_glb and export_file are `async def` and call the
\* synchronous compile with no await inside: the handler keeps the event loop
\* from its first statement to its return
CompileYields == FALSE

Hold(r) == IF CompileYields THEN None ELSE r

CanStep(r) == proc = "up" /\ running = Hold(r)

\* --------------------------------------------------------------- state
Unbound == [f \in FNames |-> "unbound"]

CoreInit ==
    /\ proc = "up"
    /\ running = None
    /\ objects = <<>>
    /\ default_segments = 0
    /\ uvMapperOf = <<>>
    /\ override = <<>>
    /\ binding = Unbound
    /\ pc = [r \in Requests |-> "idle"]
    /\ kind = [r \in Requests |-> None]
    /\ fmt = [r \in Requests |-> NoFmt]
    /\ loaded = [r \in Requests |-> "notrun"]
    /\ made = [r \in Requests |-> <<>>]
    /\ idx = [r \in Requests |-> 0]
    /\ scene = [r \in Requests |-> <<>>]
    /\ fault = [r \in Requests |-> NoFault]
    /\ written = [r \in Requests |-> <<>>]
    /\ result = [r \in Requests |-> NoResult]

\* the entry point returns res: the handler gives the event loop back
Finish(r, res) ==
    /\ pc' = [pc EXCEPT ![r] = "done"]
    /\ result' = [result EXCEPT ![r] = res]
    /\ running' = None

\* the handler goes on to its next statement without awaiting
Goto(r, p) ==
    /\ pc' = [pc EXCEPT ![r] = p]
    /\ running' = Hold(r)

\* ------------------------------------------------- requests and handlers
\* an HTTP request reaches the server (or the command line calls the exporter)
Arrive(r) ==
    /\ proc = "up"
    /\ pc[r] = "idle"
    /\ pc' = [pc EXCEPT ![r] = "queued"]
    /\ UNCHANGED <<proc, running, regVars, kind, fmt, loaded, made, idx, scene,
                   fault, written, result, op, dropped, droppedSegments, liveVars, libVars>>

\* the event loop is free and takes the request's handler up; what the
\* previous handler returned has been handed to its caller
CanStart(r) ==
    /\ proc = "up"
    /\ pc[r] = "queued"
    /\ running = None
    /\ \A q \in Requests : pc[q] # "done"

\* compile_file / serve_glb / export_file:
\* if not watched_file or not os.path.exists(watched_file): return error
\* (__main__ makes the same test before it calls export_from_script)
StartNoFile(r, k) ==
    /\ CanStart(r)
    /\ kind' = [kind EXCEPT ![r] = k]
    /\ Finish(r, ErrorResult("No file being watched or file not found"))
    /\ UNCHANGED <<proc, regVars, fmt, loaded, made, idx, scene, fault, written,
                   op, dropped, droppedSegments, liveVars, libVars>>

\* export_file / export_from_script: if file_ext not in ['stl', 'obj', 'glb']
StartUnsupported(r, k, e, sep) ==
    /\ CanStart(r)
    /\ k \in ExportKinds
    /\ e \notin SupportedExts
    /\ kind' = [kind EXCEPT ![r] = k]
    /\ fmt' = [fmt EXCEPT ![r] = [ext |-> e, separate |-> sep]]
    /\ Finish(r, ErrorResult("Unsupported file format"))
    /\ UNCHANGED <<proc, regVars, loaded, made, idx, scene, fault, written,
                   op, dropped, droppedSegments, liveVars, libVars>>

\* the handler passes its checks and reaches importlib.reload(boxy)
StartCompile(r, k) ==
    /\ CanStart(r)
    /\ kind' = [kind EXCEPT ![r] = k]
    /\ fmt' = fmt
    /\ Goto(r, "reset")
    /\ UNCHANGED <<proc, regVars, loaded, made, idx, scene, fault, written,
                   result, op, dropped, droppedSegments, liveVars, libVars>>

\* what an entry point returns when a statement outside the inner try raises an
\* Exception: `except Exception as e` at the end of each entry point
OuterExcept(k) == IF k \in GlbKinds THEN Fallback ELSE ErrorResult("Export failed")

\* importlib.reload(boxy); boxy.clear_objects()
Reset(r) ==
    /\ CanStep(r)
    /\ pc[r] = "reset"
    /\ objects' = FreshRegistry(objects)
    /\ default_segments' = reloaded_segments(default_segments)
    /\ uvMapperOf' = IF objects' = <<>> THEN <<>> ELSE uvMapperOf
    /\ override' = IF objects' = <<>> THEN <<>> ELSE override
    /\ binding' = Unbound
    /\ Goto(r, "load")
    /\ dropped' = Len(objects)
    /\ droppedSegments' = default_segments
    /\ UNCHANGED <<proc, kind, fmt, loaded, made, idx, scene, fault, written,
                   result, op, liveVars, libVars>>

\* importlib.reload(boxy) raises (boxy.py does not compile or fails half way):
\* the module may or may not have executed `objects = []` before the failure
ResetFails(r, cleared) ==
    /\ CanStep(r)
    /\ pc[r] = "reset"
    /\ objects' = IF cleared THEN reloaded_objects(objects) ELSE objects
    /\ default_segments' = IF cleared THEN reloaded_segments(default_segments)
                           ELSE default_segments
    /\ uvMapperOf' = IF cleared THEN <<>> ELSE uvMapperOf
    /\ override' = IF cleared THEN <<>> ELSE override
    /\ fault' = [fault EXCEPT ![r] = [stage |-> "reload", at |-> 0]]
    /\ Finish(r, OuterExcept(kind[r]))
    /\ UNCHANGED <<proc, binding, kind, fmt, loaded, made, idx, scene,
                   written, op, dropped, droppedSegments, liveVars, libVars>>

\* the statements after the script ran. create_glb_from_script enters its loop
\* (and tests len(boxy.objects) after it); the exporters test
\* `if len(boxy.objects) == 0` first. The extension of the file name and its
\* '%' are inputs of an export request that no statement before this point
\* reads, apart from the supported-extension test: they are drawn here
LenCheck(r) ==
    IF kind[r] \in ExportKinds /\ Len(objects) = 0
    THEN Finish(r, EmptyOutcome(kind[r])) /\ UNCHANGED fmt
    ELSE /\ Goto(r, "collect")
         /\ UNCHANGED result
         /\ IF kind[r] \in GlbKinds THEN UNCHANGED fmt
            ELSE \E e \in SupportedExts \cap Exts, sep \in BOOLEAN :
                    fmt' = [fmt EXCEPT ![r] = [ext |-> e, separate |-> sep]]

\* spec_from_file_location ... spec.loader.exec_module(module) is entered
Load(r) ==
    /\ CanStep(r)
    /\ pc[r] = "load"
    /\ loaded' = [loaded EXCEPT ![r] = "running"]
    /\ Goto(r, "script")
    /\ dropped' = 0
    /\ droppedSegments' = 0
    /\ UNCHANGED <<proc, regVars, kind, fmt, made, idx, scene, fault, written,
                   result, op, liveVars, libVars>>

\* spec_from_file_location gives no spec or no loader: create_glb_from_script
\* raises ImportError into its own except clause and goes on; export_file skips
\* the execution; export_from_script prints an error and returns False
LoadNoSpec(r) ==
    /\ CanStep(r)
    /\ pc[r] = "load"
    /\ loaded' = [loaded EXCEPT ![r] = "nospec"]
    /\ IF kind[r] = "cli"
       THEN Finish(r, ErrorResult("Could not load script")) /\ UNCHANGED fmt
       ELSE LenCheck(r)
    /\ dropped' = 0
    /\ droppedSegments' = 0
    /\ UNCHANGED <<proc, regVars, kind, made, idx, scene, fault, written,
                   op, liveVars, libVars>>

\* ------------------------------------------------------ the user script
\* @add / @add(material, name=..., uvMapper=...) on `def f(): ...`.
\* ret = 0: f builds a new Solid; ret = s: f returns the existing Solid s
\* (a module-level value shared between producers)
ScriptAdd(r, m, n, u, f, ret) ==
    /\ CanStep(r)
    /\ pc[r] = "script"
    /\ Len(objects) < MaxObjects
    /\ ret = 0 => Len(uvMapperOf) < MaxSolids
    /\ m = "bare" => (n = None /\ u = None)
    /\ LET heap == IF ret = 0 THEN NewSolid(uvMapperOf) ELSE uvMapperOf
           obj  == IF ret = 0 THEN Len(heap) ELSE ret
       IN /\ uvMapperOf' = SetMapper(heap, obj, u)
          /\ override' = Append(override, u)
          /\ objects' = add_object(objects, obj, AddMaterial(m), RegName(n, f))
          /\ made' = [made EXCEPT ![r] = Append(@, objects'[Len(objects')])]
    /\ binding' = [binding EXCEPT ![f] = DecoratorReturn]
    /\ running' = Hold(r)
    /\ op' = Observe([type |-> "add", f |-> f, name |-> n, material |-> m])
    /\ UNCHANGED <<proc, default_segments, pc, kind, fmt, loaded, idx, scene,
                   fault, written, result, dropped, droppedSegments, liveVars, libVars>>

\* add_object(obj) called by the script itself: material='basic', name=None
ScriptAddObject(r, ret) ==
    /\ CanStep(r)
    /\ pc[r] = "script"
    /\ Len(objects) < MaxObjects
    /\ ret = 0 => Len(uvMapperOf) < MaxSolids
    /\ LET heap == IF ret = 0 THEN NewSolid(uvMapperOf) ELSE uvMapperOf
           obj  == IF ret = 0 THEN Len(heap) ELSE ret
       IN /\ uvMapperOf' = heap
          /\ override' = Append(override, None)
          /\ objects' = add_object(objects, obj, "basic", None)
          /\ made' = [made EXCEPT ![r] = Append(@, objects'[Len(objects')])]
    /\ running' = Hold(r)
    /\ op' = Observe([NoOp EXCEPT !.type = "add_object"])
    /\ UNCHANGED <<proc, default_segments, binding, pc, kind, fmt, loaded, idx,
                   scene, fault, written, result, dropped, droppedSegments, liveVars, libVars>>

\* a later statement calls a decorated producer again, as superhull calls
\* glass(): possible only when the name is still bound to the function
ScriptCall(r, f) ==
    /\ CanStep(r)
    /\ pc[r] = "script"
    /\ binding[f] = "func"
    /\ Len(uvMapperOf) < MaxSolids
    /\ uvMapperOf' = NewSolid(uvMapperOf)
    /\ running' = Hold(r)
    /\ op' = Observe([NoOp EXCEPT !.type = "call", !.f = f])
    /\ UNCHANGED <<proc, objects, override, default_segments, binding, reqVars, dropped, droppedSegments, liveVars, libVars>>

\* set_default_segments(n)
ScriptSetSegments(r, n) ==
    /\ CanStep(r)
    /\ pc[r] = "script"
    /\ default_segments # n
    /\ default_segments' = set_default_segments(default_segments, n)
    /\ running' = Hold(r)
    /\ op' = Observe([NoOp EXCEPT !.type = "segments"])
    /\ UNCHANGED <<proc, objects, override, uvMapperOf, binding, reqVars, dropped, droppedSegments, liveVars, libVars>>

\* exec_module is over: nothing uses the names of the `module` object again
ModuleDropped ==
    /\ binding' = Unbound
    /\ op' = Observe(NoOp)

\* the script runs to its end
ScriptReturns(r) ==
    /\ CanStep(r)
    /\ pc[r] = "script"
    /\ loaded' = [loaded EXCEPT ![r] = "ok"]
    /\ ModuleDropped
    /\ LenCheck(r)
    /\ UNCHANGED <<proc, objects, override, default_segments, uvMapperOf, kind, made, idx,
                   scene, fault, written, dropped, droppedSegments, liveVars, libVars>>

\* a statement of the script raises an Exception: `except Exception as
\* import_error` around exec_module
ScriptRaises(r) ==
    /\ CanStep(r)
    /\ pc[r] = "script"
    /\ loaded' = [loaded EXCEPT ![r] = "raised"]
    /\ ModuleDropped
    /\ IF AfterScriptException(kind[r]) = "collect"
       THEN Goto(r, "collect") /\ UNCHANGED result
       ELSE Finish(r, ErrorResult("Script execution failed"))
    /\ UNCHANGED <<proc, objects, override, default_segments, uvMapperOf, kind, fmt, made,
                   idx, scene, fault, written, dropped, droppedSegments, liveVars, libVars>>

\* a statement of the script raises a BaseException that is no Exception
\* (sys.exit() raises SystemExit): neither `except Exception` clause of the
\* entry point nor the one of the handler matches, the exception leaves the
\* handler's task and the event loop, and the process ends
ScriptExits(r) ==
    /\ CanStep(r)
    /\ pc[r] = "script"
    /\ loaded' = [loaded EXCEPT ![r] = "exit"]
    /\ ModuleDropped
    /\ proc' = "exited"
    /\ Finish(r, [NoResult EXCEPT !.kind = "escaped"])
    /\ UNCHANGED <<objects, override, default_segments, uvMapperOf, kind, fmt, made, idx,
                   scene, fault, written, dropped, droppedSegments, liveVars, libVars>>

\* ------------------------------------------- create_glb_from_script loop
\* the stages of one pass of `for mobj, material, name in boxy.objects` that
\* call into the kernel, numpy/trimesh or the mapper, each of which may raise
GlbStages == {"to_mesh", "normals", "uvMapper"}

\* one pass of the loop completes: scene.add_geometry(mesh, node_name=name)
Triangulate(r) ==
    /\ CanStep(r)
    /\ pc[r] = "collect"
    /\ kind[r] \in GlbKinds
    /\ idx[r] < Len(objects)
    /\ idx' = [idx EXCEPT ![r] = @ + 1]
    /\ scene' = [scene EXCEPT ![r] = SceneAdd(@, FinishedMesh(objects[idx[r] + 1], "glb"))]
    /\ running' = Hold(r)
    /\ UNCHANGED <<proc, regVars, pc, kind, fmt, loaded, made, fault, written,
                   result, op, dropped, droppedSegments, liveVars, libVars>>

\* a stage of one pass raises: nothing inside the loop catches it, so it
\* reaches `except Exception as e` of the function: return create_fallback_glb()
TriangulateFails(r, stage) ==
    /\ CanStep(r)
    /\ pc[r] = "collect"
    /\ kind[r] \in GlbKinds
    /\ idx[r] < Len(objects)
    /\ fault' = [fault EXCEPT ![r] = [stage |-> stage, at |-> idx[r] + 1]]
    /\ Finish(r, OuterExcept(kind[r]))
    /\ UNCHANGED <<proc, regVars, kind, fmt, loaded, made, idx, scene, written,
                   op, dropped, droppedSegments, liveVars, libVars>>

\* after the loop: if len(boxy.objects) == 0: return create_fallback_glb();
\* otherwise return scene.export(file_type='glb')
Assemble(r) ==
    /\ CanStep(r)
    /\ pc[r] = "collect"
    /\ kind[r] \in GlbKinds
    /\ idx[r] = Len(objects)
    /\ IF Len(objects) = 0
       THEN Finish(r, EmptyOutcome(kind[r]))
       ELSE Finish(r, [kind |-> "scene", meshes |-> scene[r], msg |-> ""])
    /\ UNCHANGED <<proc, regVars, kind, fmt, loaded, made, idx, scene, fault,
                   written, op, dropped, droppedSegments, liveVars, libVars>>

\* scene.export raises: caught by `except Exception as e` of the function
AssembleFails(r) ==
    /\ CanStep(r)
    /\ pc[r] = "collect"
    /\ kind[r] \in GlbKinds
    /\ idx[r] = Len(objects)
    /\ Len(objects) > 0
    /\ fault' = [fault EXCEPT ![r] = [stage |-> "export", at |-> 0]]
    /\ Finish(r, OuterExcept(kind[r]))
    /\ UNCHANGED <<proc, regVars, kind, fmt, loaded, made, idx, scene, written,
                   op, dropped, droppedSegments, liveVars, libVars>>

\* ------------------------------------ export_file and export_from_script
\* group_name = name if name else 'unnamed'
GroupName(n) == IF n \in {None, ""} THEN "unnamed" ELSE n


\* grouped_objects: the group names in the order of their first registration
GroupNames(objs) ==
    LET F[i \in 0..Len(objs)] ==
            IF i = 0 THEN <<>>
            ELSE LET g == GroupName(objs[i].name)
                 IN IF \E j \in 1..Len(F[i - 1]) : F[i - 1][j] = g
                    THEN F[i - 1]
                    ELSE Append(F[i - 1], g)
    IN F[Len(objs)]

\* the scene of one group: its registrations in order, added without node name
GroupMeshes(objs, g, ext) ==
    LET InGroup(o) == GroupName(o.name) = g
        members == SelectSeq(objs, InGroup)
    IN [i \in 1..Len(members) |-> [FinishedMesh(members[i], ext) EXCEPT !.name = None]]

\* the stages of one pass of an export loop that may raise
ExportStages(ext) == IF ext = "glb" THEN GlbStages ELSE {"to_mesh"}

Exported == [kind |-> "exported", meshes |-> <<>>, msg |-> ""]

\* single file: one pass of `for mobj, material, name in boxy.objects`
ExportMesh(r) ==
    /\ CanStep(r)
    /\ pc[r] = "collect"
    /\ kind[r] \in ExportKinds
    /\ ~fmt[r].separate
    /\ idx[r] < Len(objects)
    /\ idx' = [idx EXCEPT ![r] = @ + 1]
    /\ scene' = [scene EXCEPT ![r] =
                    SceneAdd(@, FinishedMesh(objects[idx[r] + 1], fmt[r].ext))]
    /\ running' = Hold(r)
    /\ UNCHANGED <<proc, regVars, pc, kind, fmt, loaded, made, fault, written,
                   result, op, dropped, droppedSegments, liveVars, libVars>>

\* single file: a pass raises, outside the inner try: `except Exception as e`
\* of the function, "Export failed"
ExportMeshFails(r, stage) ==
    /\ CanStep(r)
    /\ pc[r] = "collect"
    /\ kind[r] \in ExportKinds
    /\ ~fmt[r].separate
    /\ idx[r] < Len(objects)
    /\ stage \in ExportStages(fmt[r].ext)
    /\ fault' = [fault EXCEPT ![r] = [stage |-> stage, at |-> idx[r] + 1]]
    /\ Finish(r, OuterExcept(kind[r]))
    /\ UNCHANGED <<proc, regVars, kind, fmt, loaded, made, idx, scene, written,
                   op, dropped, droppedSegments, liveVars, libVars>>

\* single file: a lone STL/OBJ registration is triangulated again and exported
\* as a mesh, anything else as the scene; the file is written
ExportWrite(r) ==
    /\ CanStep(r)
    /\ pc[r] = "collect"
    /\ kind[r] \in ExportKinds
    /\ ~fmt[r].separate
    /\ idx[r] = Len(objects)
    /\ written' = [written EXCEPT ![r] =
          <<[file |-> "out",
             meshes |-> IF Len(objects) = 1 /\ fmt[r].ext \in {"stl", "obj"}
                        THEN <<[FinishedMesh(objects[1], fmt[r].ext)
                                  EXCEPT !.name = None]>>
                        ELSE scene[r]]>>]
    /\ Finish(r, Exported)
    /\ UNCHANGED <<proc, regVars, kind, fmt, loaded, made, idx, scene, fault,
                   op, dropped, droppedSegments, liveVars, libVars>>

\* single file: the export or the write raises inside the inner try
ExportWriteFails(r) ==
    /\ CanStep(r)
    /\ pc[r] = "collect"
    /\ kind[r] \in ExportKinds
    /\ ~fmt[r].separate
    /\ idx[r] = Len(objects)
    /\ fault' = [fault EXCEPT ![r] = [stage |-> "export", at |-> 0]]
    /\ Finish(r, ErrorResult("Failed to export"))
    /\ UNCHANGED <<proc, regVars, kind, fmt, loaded, made, idx, scene, written,
                   op, dropped, droppedSegments, liveVars, libVars>>

\* '%' in filename: one group is meshed, exported and written to its own file
ExportGroup(r) ==
    /\ CanStep(r)
    /\ pc[r] = "collect"
    /\ kind[r] \in ExportKinds
    /\ fmt[r].separate
    /\ idx[r] < Len(GroupNames(objects))
    /\ idx' = [idx EXCEPT ![r] = @ + 1]
    /\ LET g == GroupNames(objects)[idx[r] + 1]
       IN written' = [written EXCEPT ![r] =
             Append(@, [file |-> g, meshes |-> GroupMeshes(objects, g, fmt[r].ext)])]
    /\ running' = Hold(r)
    /\ UNCHANGED <<proc, regVars, pc, kind, fmt, loaded, made, scene, fault,
                   result, op, dropped, droppedSegments, liveVars, libVars>>

\* '%' in filename: meshing a group raises ("Export failed") or its export or
\* write raises ("Failed to export"); the files of earlier groups stay written
ExportGroupFails(r, stage) ==
    /\ CanStep(r)
    /\ pc[r] = "collect"
    /\ kind[r] \in ExportKinds
    /\ fmt[r].separate
    /\ idx[r] < Len(GroupNames(objects))
    /\ stage \in ExportStages(fmt[r].ext) \cup {"export"}
    /\ fault' = [fault EXCEPT ![r] = [stage |-> stage, at |-> idx[r] + 1]]
    /\ Finish(r, IF stage = "export" THEN ErrorResult("Failed to export")
                 ELSE OuterExcept(kind[r]))
    /\ UNCHANGED <<proc, regVars, kind, fmt, loaded, made, idx, scene, written,
                   op, dropped, droppedSegments, liveVars, libVars>>

\* '%' in filename: every group is written
ExportGroupsDone(r) ==
    /\ CanStep(r)
    /\ pc[r] = "collect"
    /\ kind[r] \in ExportKinds
    /\ fmt[r].separate
    /\ idx[r] = Len(GroupNames(objects))
    /\ Finish(r, Exported)
    /\ UNCHANGED <<proc, regVars, kind, fmt, loaded, made, idx, scene, fault,
                   written, op, dropped, droppedSegments, liveVars, libVars>>

\* the response is sent (the command returns): the request is over
Return(r) ==
    /\ proc = "up"
    /\ pc[r] = "done"
    /\ pc' = [pc EXCEPT ![r] = "idle"]
    /\ kind' = [kind EXCEPT ![r] = None]
    /\ fmt' = [fmt EXCEPT ![r] = NoFmt]
    /\ loaded' = [loaded EXCEPT ![r] = "notrun"]
    /\ made' = [made EXCEPT ![r] = <<>>]
    /\ idx' = [idx EXCEPT ![r] = 0]
    /\ scene' = [scene EXCEPT ![r] = <<>>]
    /\ fault' = [fault EXCEPT ![r] = NoFault]
    /\ written' = [written EXCEPT ![r] = <<>>]
    /\ result' = [result EXCEPT ![r] = NoResult]
    /\ UNCHANGED <<proc, running, regVars, op, dropped, droppedSegments, liveVars, libVars>>

\* ------------------------------------------------------- specification
LiveInit0 ==
    /\ connected_clients = {}
    /\ sock = [c \in 1..NClients |-> "new"]
    /\ wsPc = [c \in 1..NClients |-> "none"]
    /\ watcher = "waiting"
    /\ changes = 0
    /\ cur = 0
    /\ visited = {}
    /\ iterSize = 0
    /\ iterSnap = {}
    /\ disconnected = <<>>
    /\ audience = {}
    /\ delivered = {}
    /\ wsError = {}

\* no library call is being observed
NoCall == [fn |-> "none"]
NoRet == [kind |-> "none"]

LibInit0 ==
    /\ call = NoCall
    /\ kernel = <<>>
    /\ out = NoRet

Init ==
    /\ CoreInit /\ dropped = 0 /\ droppedSegments = 0 /\ op = OpOff
    /\ LiveInit0 /\ LibInit0

\* the statements of a script that the orchestrator can observe: registrations
\* of newly built Solids and set_default_segments
ScriptStep(r) ==
    \/ \E m \in MaterialArgs, n \in NameArgs, u \in MapperArgs, f \in FNames :
          ScriptAdd(r, m, n, u, f, 0)
    \/ ScriptAddObject(r, 0)
    \/ \E n \in SegmentArgs : ScriptSetSegments(r, n)

Next ==
    \/ \E r \in Requests : Arrive(r)
    \/ \E r \in Requests, k \in Kinds : StartNoFile(r, k)
    \/ \E r \in Requests, k \in ExportKinds, e \in Exts, sep \in BOOLEAN :
          StartUnsupported(r, k, e, sep)
    \/ \E r \in Requests, k \in Kinds : StartCompile(r, k)
    \/ \E r \in Requests : Reset(r)
    \/ \E r \in Requests, cleared \in BOOLEAN : ResetFails(r, cleared)
    \/ \E r \in Requests : Load(r)
    \/ \E r \in Requests : LoadNoSpec(r)
    \/ \E r \in Requests : ScriptStep(r)
    \/ \E r \in Requests : ScriptReturns(r)
    \/ \E r \in Requests : ScriptRaises(r)
    \/ \E r \in Requests : ScriptExits(r)
    \/ \E r \in Requests : Triangulate(r)
    \/ \E r \in Requests, st \in GlbStages : TriangulateFails(r, st)
    \/ \E r \in Requests : Assemble(r)
    \/ \E r \in Requests : AssembleFails(r)
    \/ \E r \in Requests : ExportMesh(r)
    \/ \E r \in Requests, st \in GlbStages : ExportMeshFails(r, st)
    \/ \E r \in Requests : ExportWrite(r)
    \/ \E r \in Requests : ExportWriteFails(r)
    \/ \E r \in Requests : ExportGroup(r)
    \/ \E r \in Requests, st \in GlbStages \cup {"export"} : ExportGroupFails(r, st)
    \/ \E r \in Requests : ExportGroupsDone(r)
    \/ \E r \in Requests : Return(r)

Spec == Init /\ [][Next]_vars

\* ------------------------------------------------ one script execution
\* the state in which exec_module starts the script of a GLB compile, with
\* the record of the last statement switched on
ScriptInit ==
    /\ proc = "up"
    /\ running = Hold("r1")
    /\ objects = <<>>
    /\ default_segments = 0
    /\ uvMapperOf = <<>>
    /\ override = <<>>
    /\ binding = Unbound
    /\ pc = [r \in Requests |-> IF r = "r1" THEN "script" ELSE "idle"]
    /\ kind = [r \in Requests |-> IF r = "r1" THEN "glb" ELSE None]
    /\ fmt = [r \in Requests |-> NoFmt]
    /\ loaded = [r \in Requests |-> IF r = "r1" THEN "running" ELSE "notrun"]
    /\ made = [r \in Requests |-> <<>>]
    /\ idx = [r \in Requests |-> 0]
    /\ scene = [r \in Requests |-> <<>>]
    /\ fault = [r \in Requests |-> NoFault]
    /\ written = [r \in Requests |-> <<>>]
    /\ result = [r \in Requests |-> NoResult]
    /\ dropped = 0
    /\ droppedSegments = 0
    /\ op = NoOp
    /\ LiveInit0
    /\ LibInit0

\* every statement of the script, producers that return a shared Solid and
\* later calls of a decorated producer included, then the loop of the compile
ScriptNext ==
    \/ \E m \in MaterialArgs, n \in NameArgs, u \in MapperArgs, f \in FNames,
          ret \in 0..MaxSolids :
          ret <= Len(uvMapperOf) /\ ScriptAdd("r1", m, n, u, f, ret)
    \/ \E ret \in 0..MaxSolids : ret <= Len(uvMapperOf) /\ ScriptAddObject("r1", ret)
    \/ \E f \in FNames : ScriptCall("r1", f)
    \/ ScriptReturns("r1")
    \/ ScriptRaises("r1")
    \/ Triangulate("r1")
    \/ Assemble("r1")

ScriptSpec == ScriptInit /\ [][ScriptNext]_vars

\* ------------------------------------------------------------ live reload
Clients == 1..NClients

Range(seq) == {seq[i] : i \in 1..Len(seq)}

\* websocket_endpoint: await websocket.accept(); connected_clients.add(websocket)
\* and the coroutine waits in receive_text
WsConnect(c) ==
    /\ sock[c] = "new"
    /\ sock' = [sock EXCEPT ![c] = "open"]
    /\ wsPc' = [wsPc EXCEPT ![c] = "receiving"]
    /\ connected_clients' = connected_clients \cup {c}
    /\ UNCHANGED <<watcher, changes, cur, visited, iterSize, iterSnap,
                   disconnected, audience, delivered, wsError, coreVars, dropped, droppedSegments, op, libVars>>

\* the viewer closes its socket; its handler has not yet been resumed
PeerCloses(c) ==
    /\ sock[c] = "open"
    /\ sock' = [sock EXCEPT ![c] = "closed"]
    /\ UNCHANGED <<connected_clients, wsPc, watcher, changes, cur, visited,
                   iterSize, iterSnap, disconnected, audience, delivered,
                   wsError, coreVars, dropped, droppedSegments, op, libVars>>

\* websocket_endpoint: receive_text raises WebSocketDisconnect;
\* connected_clients.remove(websocket)
WsDisconnect(c) ==
    /\ wsPc[c] = "receiving"
    /\ sock[c] = "closed"
    /\ c \in connected_clients
    /\ connected_clients' = connected_clients \ {c}
    /\ wsPc' = [wsPc EXCEPT ![c] = "ended"]
    /\ UNCHANGED <<sock, watcher, changes, cur, visited, iterSize, iterSnap,
                   disconnected, audience, delivered, wsError, coreVars, dropped, droppedSegments, op, libVars>>

\* websocket_endpoint: set.remove of an element notify_clients has already
\* discarded raises KeyError inside the except clause: the handler dies on it
WsDisconnectKeyError(c) ==
    /\ wsPc[c] = "receiving"
    /\ sock[c] = "closed"
    /\ c \notin connected_clients
    /\ wsPc' = [wsPc EXCEPT ![c] = "failed"]
    /\ wsError' = wsError \cup {c}
    /\ UNCHANGED <<connected_clients, sock, watcher, changes, cur, visited,
                   iterSize, iterSnap, disconnected, audience, delivered,
                   coreVars, dropped, droppedSegments, op, libVars>>

\* watch_file: awatch yields a change; notify_clients: `if connected_clients:`
\* is false, nothing is sent
FileChangedNoClients ==
    /\ watcher = "waiting"
    /\ changes < MaxChanges
    /\ connected_clients = {}
    /\ changes' = changes + 1
    /\ audience' = {}
    /\ delivered' = {}
    /\ UNCHANGED <<connected_clients, sock, wsPc, watcher, cur, visited,
                   iterSize, iterSnap, disconnected, wsError, coreVars, dropped, droppedSegments, op, libVars>>

\* watch_file: awatch yields a change; notify_clients: disconnected = []; the
\* for loop takes its first client from the set and awaits send_text on it
FileChanged(c) ==
    /\ watcher = "waiting"
    /\ changes < MaxChanges
    /\ c \in connected_clients
    /\ changes' = changes + 1
    /\ audience' = connected_clients
    /\ delivered' = {}
    /\ disconnected' = <<>>
    /\ iterSize' = Cardinality(connected_clients)
    /\ iterSnap' = connected_clients
    /\ visited' = {c}
    /\ cur' = c
    /\ watcher' = "sending"
    /\ UNCHANGED <<connected_clients, sock, wsPc, wsError, coreVars, dropped, droppedSegments, op, libVars>>

\* the file changes after the watcher task has died: nothing runs
FileChangedUnwatched ==
    /\ watcher = "dead"
    /\ changes < MaxChanges
    /\ changes' = changes + 1
    /\ audience' = connected_clients
    /\ delivered' = {}
    /\ UNCHANGED <<connected_clients, sock, wsPc, watcher, cur, visited,
                   iterSize, iterSnap, disconnected, wsError, coreVars, dropped, droppedSegments, op, libVars>>

\* await client.send_text(message) is over: the message went out, or the send
\* raised and `except:` appended the client to disconnected
AfterSend ==
    /\ delivered' = IF sock[cur] = "open" THEN delivered \cup {cur} ELSE delivered
    /\ disconnected' = IF sock[cur] = "open" THEN disconnected
                       ELSE Append(disconnected, cur)

\* the set iterator may yield another client: the set has the size it had when
\* the loop began, and a client it has not yielded is in it
MayYield(c) ==
    /\ Cardinality(connected_clients) = iterSize
    /\ c \in connected_clients \ visited

\* the set iterator may be exhausted: every client has been yielded, or the set
\* was changed (one removed, one added) and the iterator misses the new one
MayExhaust ==
    /\ Cardinality(connected_clients) = iterSize
    /\ \/ connected_clients \subseteq visited
       \/ connected_clients # iterSnap

\* notify_clients: the send is over and the for loop takes the next client
SendThenNext(c) ==
    /\ watcher = "sending"
    /\ MayYield(c)
    /\ AfterSend
    /\ visited' = visited \cup {c}
    /\ cur' = c
    /\ UNCHANGED <<connected_clients, sock, wsPc, watcher, changes, iterSize,
                   iterSnap, audience, wsError, coreVars, dropped, droppedSegments, op, libVars>>

\* notify_clients: the send is over, the for loop ends,
\* `for client in disconnected: connected_clients.discard(client)`, and
\* watch_file waits for the next change
SendThenFinish ==
    /\ watcher = "sending"
    /\ MayExhaust
    /\ AfterSend
    /\ connected_clients' = connected_clients \ Range(disconnected')
    /\ watcher' = "waiting"
    /\ cur' = 0
    /\ visited' = {}
    /\ UNCHANGED <<sock, wsPc, changes, iterSize, iterSnap, audience, wsError,
                   coreVars, dropped, droppedSegments, op, libVars>>

\* notify_clients: the send is over and the for statement asks the iterator
\* for the next client, but a websocket handler added to or removed from the
\* set while send_text was awaited: RuntimeError "Set changed size during
\* iteration", raised outside the try, leaves notify_clients and watch_file:
\* the watcher task is over
SendThenCrash ==
    /\ watcher = "sending"
    /\ Cardinality(connected_clients) # iterSize
    /\ AfterSend
    /\ watcher' = "dead"
    /\ cur' = 0
    /\ visited' = {}
    /\ UNCHANGED <<connected_clients, sock, wsPc, changes, iterSize, iterSnap,
                   audience, wsError, coreVars, dropped, droppedSegments, op, libVars>>

LiveNext ==
    \/ \E c \in Clients : WsConnect(c)
    \/ \E c \in Clients : PeerCloses(c)
    \/ \E c \in Clients : WsDisconnect(c)
    \/ \E c \in Clients : WsDisconnectKeyError(c)
    \/ FileChangedNoClients
    \/ \E c \in Clients : FileChanged(c)
    \/ FileChangedUnwatched
    \/ \E c \in Clients : SendThenNext(c)
    \/ SendThenFinish
    \/ SendThenCrash

LiveSpec == Init /\ [][LiveNext]_vars

\* ------------------------------------------------- boxy.py: coordinates
\* Python values a script passes to boxy: None, a number, a list or tuple
NoneV == [t |-> "none"]
Num(n) == [t |-> "num", v |-> n]
SeqV(s) == [t |-> "seq", v |-> s]

\* isinstance(x, int) or isinstance(x, float)
IsScalar(x) == x.t = "num"

Returns(v) == [kind |-> "return", v |-> v]
Raises(e) == [kind |-> "raise", error |-> e]

\* `x, y, z = x`: unpacking a sequence of the wrong length raises ValueError,
\* unpacking None raises TypeError
Unpack(x, n) ==
    IF x.t = "seq"
    THEN IF Len(x.v) = n THEN Returns(SeqV(x.v)) ELSE Raises("ValueError")
    ELSE Raises("TypeError")

\* a normalizer that takes every missing axis from the one before it
rewrite_coords_chained(x, y, z) ==
    IF IsScalar(x)
    THEN LET y1 == IF y = NoneV THEN x ELSE y
         IN Returns(SeqV(<<x, y1, IF z = NoneV THEN y1 ELSE z>>))
    ELSE IF ~(y = NoneV /\ z = NoneV) THEN Raises("AssertionError")
    ELSE Unpack(x, 3)

\* rewrite_coords
rewrite_coords(x, y, z) ==
    IF IsScalar(x)
    THEN Returns(SeqV(<<x, IF y = NoneV THEN x ELSE y, IF z = NoneV THEN x ELSE z>>))
    ELSE IF ~(y = NoneV /\ z = NoneV) THEN Raises("AssertionError")
    ELSE Unpack(x, 3)

\* rewrite_coords2: a non-scalar x is returned as it is, whatever it is
rewrite_coords2(x, y) ==
    IF IsScalar(x)
    THEN Returns(SeqV(<<x, IF y = NoneV THEN x ELSE y>>))
    ELSE IF y # NoneV THEN Raises("AssertionError")
    ELSE Returns(x)

Coords == (-MaxCoord)..MaxCoord
Scalars == {Num(n) : n \in Coords}
Pairs == {SeqV(<<Num(a), Num(b)>>) : a, b \in Coords}
Triples == {SeqV(<<Num(a), Num(b), Num(c)>>) : a, b, c \in Coords}
\* the first argument of a normalizer: None, a number, or a sequence of one,
\* two or three numbers
XArgs == {NoneV} \cup Scalars \cup {SeqV(<<n>>) : n \in Scalars} \cup Pairs \cup Triples
\* a later argument: absent, a number, or (wrongly) a sequence
YArgs == {NoneV} \cup Scalars \cup {SeqV(<<Num(0), Num(1)>>)}

\* a script statement is observed: what it called, what reached the kernel,
\* what came back
Observed(c, k, o) ==
    /\ call = NoCall
    /\ call' = c
    /\ kernel' = k
    /\ out' = o

\* the statement is over; the script goes on to its next one
StatementDone ==
    /\ call # NoCall
    /\ call' = NoCall
    /\ kernel' = <<>>
    /\ out' = NoRet
    /\ UNCHANGED <<coreVars, dropped, droppedSegments, op, liveVars>>

CallRewriteCoords(x, y, z) ==
    /\ Observed([fn |-> "rewrite_coords", args |-> <<x, y, z>>], <<>>,
                rewrite_coords(x, y, z))
    /\ UNCHANGED <<coreVars, dropped, droppedSegments, op, liveVars>>

CallRewriteCoords2(x, y) ==
    /\ Observed([fn |-> "rewrite_coords2", args |-> <<x, y>>], <<>>,
                rewrite_coords2(x, y))
    /\ UNCHANGED <<coreVars, dropped, droppedSegments, op, liveVars>>

\* -------------------------------------------------- boxy.py: primitives
\* a constructor that always leaves the resolution to the kernel's own default
SegmentsIgnoringDefault(segments, dflt) == segments

\* segments if segments != 0 else default_segments
Segments(segments, dflt) == IF segments # 0 THEN segments ELSE dflt

\* arguments of set_default_segments and the segments= argument of a primitive
LibSegmentArgs == {0, 8, 100}
SegmentsArgs == {0, 6}
\* radii and (even) diameters of a Cylinder, absent or given
RadiusArgs == {NoneV, Num(1), Num(2)}
DiameterArgs == {NoneV, Num(6), Num(8)}

\* d / 2
Half(d) == Num(d.v \div 2)

\* set_default_segments(n) called by the script
CallSetDefaultSegments(n) ==
    /\ Observed([fn |-> "set_default_segments", args |-> <<n>>], <<>>, Returns(NoneV))
    /\ default_segments' = set_default_segments(default_segments, n)
    /\ UNCHANGED <<proc, running, objects, uvMapperOf, binding, override, reqVars,
                   dropped, droppedSegments, op, liveVars>>

\* Circle(radius, segments) and Sphere(radius, segments): one kernel call
CallRound(cls, radius, segments) ==
    /\ Observed([fn |-> cls, radius |-> radius, segments |-> segments],
                <<[fn |-> cls, radius |-> radius,
                   segments |-> Segments(segments, default_segments)]>>,
                Returns([t |-> cls]))
    /\ UNCHANGED <<coreVars, dropped, droppedSegments, op, liveVars>>

\* Cylinder.__init__: the two radii handed to the kernel, or the failed assert
CylinderRadii(r1, r2, d1, d2) ==
    IF r1 = NoneV
    THEN IF d1 = NoneV THEN Raises("AssertionError")
         ELSE Returns(<<Half(d1),
                        IF r2 = NoneV
                        THEN (IF d2 = NoneV THEN Half(d1) ELSE Half(d2))
                        ELSE r2>>)
    ELSE Returns(<<r1, IF r2 = NoneV THEN r1 ELSE r2>>)

\* Cylinder(h, r1, r2, segments=, d1=, d2=)
CallCylinder(r1, r2, d1, d2, segments) ==
    /\ LET radii == CylinderRadii(r1, r2, d1, d2)
           c == [fn |-> "Cylinder", r1 |-> r1, r2 |-> r2, d1 |-> d1, d2 |-> d2,
                 segments |-> segments]
       IN IF radii.kind = "raise"
          THEN Observed(c, <<>>, radii)
          ELSE Observed(c, <<[fn |-> "Cylinder", r1 |-> radii.v[1], r2 |-> radii.v[2],
                               segments |-> Segments(segments, default_segments)]>>,
                        Returns([t |-> "Cylinder"]))
    /\ UNCHANGED <<coreVars, dropped, droppedSegments, op, liveVars>>

\* O2D.revolve(degrees, segments, insideOut): the revolve, then obj.rotate when
\* insideOut
CallRevolve(segments, insideOut) ==
    /\ Observed([fn |-> "revolve", segments |-> segments, insideOut |-> insideOut],
                <<[fn |-> "revolve",
                   segments |-> Segments(segments, default_segments)]>>
                   \o (IF insideOut THEN <<[fn |-> "rotate"]>> ELSE <<>>),
                Returns([t |-> "O3D"]))
    /\ UNCHANGED <<coreVars, dropped, droppedSegments, op, liveVars>>

\* RoundedRectangle(cornerRadius, x, y, segments): rewrite_coords2, one Circle,
\* four corner copies `c + [dx, dy]` (a translate each), hull of the corners.
\* The corner offsets are kept doubled: 2 * (x / 2 - cornerRadius) = x - 2 * cornerRadius
CallRoundedRectangle(cornerRadius, x, y, segments) ==
    /\ LET xy == rewrite_coords2(x, y)
           c == [fn |-> "RoundedRectangle", radius |-> cornerRadius, x |-> x, y |-> y,
                 segments |-> segments]
           circle == [fn |-> "Circle", radius |-> cornerRadius,
                      segments |-> Segments(segments, default_segments)]
       IN IF xy.kind = "raise"
          THEN Observed(c, <<>>, xy)
          ELSE IF ~(xy.v.t = "seq" /\ Len(xy.v.v) = 2)
          THEN Observed(c, <<>>, Raises(IF xy.v.t = "seq" THEN "ValueError" ELSE "TypeError"))
          ELSE LET w == xy.v.v[1].v - 2 * cornerRadius
                   h == xy.v.v[2].v - 2 * cornerRadius
               IN Observed(c,
                           <<circle,
                             [fn |-> "translate", twice |-> <<-w, -h>>],
                             [fn |-> "translate", twice |-> <<w, -h>>],
                             [fn |-> "translate", twice |-> <<-w, h>>],
                             [fn |-> "translate", twice |-> <<w, h>>],
                             [fn |-> "batch_hull", n |-> 4]>>,
                           Returns([t |-> "RoundedRectangle"]))
    /\ UNCHANGED <<coreVars, dropped, droppedSegments, op, liveVars>>

\* ----------------------------------------------------- boxy.py: algebra
\* the wrappers and the kernel values they wrap
Wrapped == {"O2D", "O3D"}
Dim(cls) == IF cls = "O3D" THEN 3 ELSE 2
Handle(cls) == [t |-> IF cls = "O3D" THEN "Manifold" ELSE "CrossSection"]

\* right.manifold if isinstance(right, O3D) else right  (crossSection / O2D):
\* anything that is not a wrapper of the same class goes to the kernel as it is
Forward(cls, x) == IF x.t = cls THEN Handle(cls) ELSE x

\* (isinstance(right, list) or isinstance(right, tuple)) and len(right) == n
\* and (isinstance(right[0], int) or isinstance(right[0], float))
IsCoord(right, n) == right.t = "seq" /\ Len(right.v) = n /\ IsScalar(right.v[1])

\* a subtraction that forgets the sign
NotNegated(v) == v

\* -right[i]
Neg(v) == Num(-(v.v))

\* O3D.translate / O2D.translate: normalize, then one kernel translate
Translate(cls, x, y, z) ==
    LET c == IF cls = "O3D" THEN rewrite_coords(x, y, z) ELSE rewrite_coords2(x, y)
    IN IF c.kind = "raise" THEN [k |-> <<>>, o |-> c]
       ELSE [k |-> <<[fn |-> "translate", v |-> c.v]>>, o |-> Returns([t |-> cls])]

\* __add__, __sub__, __or__, __xor__ of O2D and O3D. accepted: whether the
\* kernel operator takes the operand it is handed
BinOp(cls, o, right, accepted) ==
    IF o \in {"+", "-"} /\ IsCoord(right, Dim(cls))
    THEN IF o = "+" THEN Translate(cls, right, NoneV, NoneV)
         ELSE Translate(cls, Neg(right.v[1]), Neg(right.v[2]),
                        IF cls = "O3D" THEN Neg(right.v[3]) ELSE NoneV)
    ELSE [k |-> <<[fn |-> o, right |-> Forward(cls, right)]>>,
          o |-> IF accepted THEN Returns([t |-> cls]) ELSE Raises("KernelError")]

\* hull(*elems) / union(*elems): the class of the first element picks the
\* kernel batch call; every element goes into its list
NAry(fn, elems, accepted) ==
    LET cls == IF elems[1].t \in {"O3D", "Manifold"} THEN "O3D" ELSE "O2D"
    IN [k |-> <<[fn |-> fn, of |-> Handle(cls).t,
                 elems |-> [i \in 1..Len(elems) |-> Forward(cls, elems[i])]]>>,
        o |-> IF accepted THEN Returns([t |-> cls]) ELSE Raises("KernelError")]

Objects == {[t |-> "O2D"], [t |-> "O3D"], [t |-> "Manifold"], [t |-> "CrossSection"]}
Operands == Objects \cup Pairs \cup Triples
ElemLists == UNION {[1..n -> Objects] : n \in 2..MaxElems}

\* the kernel takes only values of its own class
KernelTakes(k, accepted) ==
    accepted => \A i \in 1..Len(k) :
                    /\ k[i].fn \in {"+", "-", "|", "^"} => k[i].right.t \in {"Manifold", "CrossSection"}
                    /\ k[i].fn \in {"hull", "union"} =>
                          \A j \in 1..Len(k[i].elems) : k[i].elems[j].t = k[i].of

\* self <o> right
CallBinOp(cls, o, right, accepted) ==
    /\ LET b == BinOp(cls, o, right, accepted)
       IN /\ KernelTakes(b.k, accepted)
          /\ Observed([fn |-> "binop", cls |-> cls, o |-> o, right |-> right], b.k, b.o)
    /\ UNCHANGED <<coreVars, dropped, droppedSegments, op, liveVars>>

\* (self + c) - c
CallAddSub(cls, c) ==
    /\ Len(c.v) = Dim(cls)
    /\ LET a == BinOp(cls, "+", c, TRUE)
           b == BinOp(cls, "-", c, TRUE)
       IN Observed([fn |-> "addsub", cls |-> cls, right |-> c], a.k \o b.k, b.o)
    /\ UNCHANGED <<coreVars, dropped, droppedSegments, op, liveVars>>

\* hull(elems) / union(elems)
CallNAry(fn, elems, accepted) ==
    /\ LET b == NAry(fn, elems, accepted)
       IN /\ KernelTakes(b.k, accepted)
          /\ Observed([fn |-> fn, elems |-> elems], b.k, b.o)
    /\ UNCHANGED <<coreVars, dropped, droppedSegments, op, liveVars>>

\* ---------------------------------------------------- boxy.py: uvBoxMap
Abs(n) == IF n < 0 THEN 0 - n ELSE n
Sign(n) == IF n < 0 THEN 0 - 1 ELSE IF n > 0 THEN 1 ELSE 0
Max3(a, b, c) == IF a >= b /\ a >= c THEN a ELSE IF b >= c THEN b ELSE c

\* np.cross(edge1, edge2)
Cross(a, b) == <<a[2] * b[3] - a[3] * b[2],
                 a[3] * b[1] - a[1] * b[3],
                 a[1] * b[2] - a[2] * b[1]>>

\* a dominant axis searched from Z back to X
DomNormalZFirst(normal) ==
    LET m == Max3(Abs(normal[1]), Abs(normal[2]), Abs(normal[3]))
    IN IF Abs(normal[3]) = m THEN <<0, 0, Sign(normal[3])>>
       ELSE IF Abs(normal[2]) = m THEN <<0, Sign(normal[2]), 0>>
       ELSE <<Sign(normal[1]), 0, 0>>

\* gen_uv: abs_normal, max_component and the if / elif / else that builds
\* dom_normal. The code divides the face normal by its length first, which
\* changes neither the signs nor the order of the absolute values: the model
\* keeps the integer cross product
DomNormal(normal) ==
    LET m == Max3(Abs(normal[1]), Abs(normal[2]), Abs(normal[3]))
    IN IF Abs(normal[1]) = m THEN <<Sign(normal[1]), 0, 0>>
       ELSE IF Abs(normal[2]) = m THEN <<0, Sign(normal[2]), 0>>
       ELSE <<0, 0, Sign(normal[3])>>

\* the three factors of `xy * abs(dom_normal[2]) + yz * abs(dom_normal[0]) +
\* xz * abs(dom_normal[1])`
Weights(normal) ==
    LET d == DomNormal(normal)
    IN [xy |-> Abs(d[3]), yz |-> Abs(d[1]), xz |-> Abs(d[2])]

\* gen_uv(vertex, normal), v being the vertex scaled into the bounding box
gen_uv(v, normal) ==
    LET w == Weights(normal)
    IN <<v[1] * w.xy + v[2] * w.yz + v[1] * w.xz,
         v[2] * w.xy + v[3] * w.yz + v[3] * w.xz>>

Vectors == {<<a, b, c>> : a, b, c \in Coords}
\* scaled vertices with three different coordinates, so that the three
\* projections differ
Vertices == {<<1, 2, 3>>, <<3, 1, 2>>}

\* one pass of `for face in faces` with face_area > 0, for one of its vertices
CallGenUv(edge1, edge2, v) ==
    /\ Cross(edge1, edge2) # <<0, 0, 0>>
    /\ LET normal == Cross(edge1, edge2)
       IN Observed([fn |-> "gen_uv", normal |-> normal, vertex |-> v], <<>>,
                   Returns([uv |-> gen_uv(v, normal), w |-> Weights(normal)]))
    /\ UNCHANGED <<coreVars, dropped, droppedSegments, op, liveVars>>

\* a face without area: `if face_area > 0` is false, gen_uv is not called
CallFaceSkipped(edge1, edge2) ==
    /\ Cross(edge1, edge2) = <<0, 0, 0>>
    /\ Observed([fn |-> "face_skipped"], <<>>, Returns(NoneV))
    /\ UNCHANGED <<coreVars, dropped, droppedSegments, op, liveVars>>

\* ------------------------------------------------ library specification
\* the script is between two statements
Idle == call = NoCall

\* the next statement of the script, with its arguments
DoRewriteCoords ==
    Idle /\ \E x \in XArgs, y, z \in YArgs : CallRewriteCoords(x, y, z)
DoRewriteCoords2 ==
    Idle /\ \E x \in XArgs, y \in YArgs : CallRewriteCoords2(x, y)
DoSetDefaultSegments ==
    Idle /\ \E n \in LibSegmentArgs : CallSetDefaultSegments(n)
DoRound ==
    Idle /\ \E cls \in {"Circle", "Sphere"}, g \in SegmentsArgs : CallRound(cls, 1, g)
DoCylinder ==
    Idle /\ \E r1, r2 \in RadiusArgs, d1, d2 \in DiameterArgs, g \in SegmentsArgs :
               CallCylinder(r1, r2, d1, d2, g)
DoRevolve ==
    Idle /\ \E g \in SegmentsArgs, io \in BOOLEAN : CallRevolve(g, io)
DoRoundedRectangle ==
    Idle /\ \E x \in Scalars \cup Pairs, y \in {NoneV, Num(1)}, g \in SegmentsArgs :
               CallRoundedRectangle(1, x, y, g)
DoBinOp ==
    Idle /\ \E cls \in Wrapped, o \in {"+", "-", "|", "^"}, right \in Operands,
               accepted \in BOOLEAN : CallBinOp(cls, o, right, accepted)
DoAddSub ==
    Idle /\ \E cls \in Wrapped, c \in Pairs \cup Triples : CallAddSub(cls, c)
DoNAry ==
    Idle /\ \E fn \in {"hull", "union"}, elems \in ElemLists, accepted \in BOOLEAN :
               CallNAry(fn, elems, accepted)
DoGenUv ==
    Idle /\ \E edge1, edge2 \in Vectors, v \in Vertices : CallGenUv(edge1, edge2, v)
DoFaceSkipped ==
    Idle /\ \E edge1, edge2 \in Vectors : CallFaceSkipped(edge1, edge2)

LibNext ==
    \/ StatementDone
    \/ DoRewriteCoords
    \/ DoRewriteCoords2
    \/ DoSetDefaultSegments
    \/ DoRound
    \/ DoCylinder
    \/ DoRevolve
    \/ DoRoundedRectangle
    \/ DoBinOp
    \/ DoAddSub
    \/ DoNAry
    \/ DoGenUv
    \/ DoFaceSkipped

LibSpec == Init /\ [][LibNext]_vars

\* ----------------------------------------------------------- properties
Entered(r) == pc[r] \in {"reset", "load", "script", "collect"}

\* between clear_objects and the last read of boxy.objects
InCompile(r) == pc[r] \in {"load", "script", "collect"}

Returned(r) == pc[r] = "done"

\* the registrations a compile made, finished for a GLB scene
SceneOf(regs) == FinishedAll(regs, "glb")

\* seq without its i-th element
Without(seq, i) ==
    [j \in 1..(Len(seq) - 1) |-> IF j < i THEN seq[j] ELSE seq[j + 1]]

\* C1: in every entry point the registry is empty when exec_module starts the
\* script, whatever earlier compiles left in it; while the script runs and
\* while the loops read it, the registry holds exactly the registrations this
\* execution made, and an exported scene is built from exactly these.
C1_RegistryFreshAtScriptStart ==
    \A r \in Requests :
        /\ pc[r] = "load" => objects = <<>>
        /\ pc[r] \in {"script", "collect"} => objects = made[r]
        /\ (Returned(r) /\ result[r].kind = "scene") =>
              result[r].meshes = SceneOf(made[r])
        /\ (Returned(r) /\ result[r].kind = "exported") =>
              \A i \in 1..Len(written[r]) :
                 \A j \in 1..Len(written[r][i].meshes) :
                    \E k \in 1..Len(made[r]) :
                       written[r][i].meshes[j].obj = made[r][k].obj

\* a compile is about to run its script after its reload + clear threw away
\* what an earlier compile had registered
C1_Witness ==
    \E r \in Requests : pc[r] = "load" /\ dropped > 0 /\ objects = <<>>

\* C2 as stated: in every entry point a script that raises after k >= 1
\* registrations still gets exactly those k meshes exported (no later stage
\* failing).
C2_Original ==
    \A r \in Requests :
        (Returned(r) /\ loaded[r] = "raised" /\ Len(made[r]) >= 1
            /\ fault[r] = NoFault)
        => (result[r].kind = "scene" /\ result[r].meshes = SceneOf(made[r]))

\* C2 amended: create_glb_from_script catches the Exception of the script and
\* its loop runs over exactly the k registrations made before it; it returns
\* the scene of those k meshes (the fallback cube when k = 0 or when a later
\* stage raises). export_file and export_from_script return an error instead
\* and write no file.
C2_ScriptFailureKeepsRegistrations ==
    \A r \in Requests :
        /\ (pc[r] = "collect" /\ loaded[r] = "raised") =>
              (kind[r] \in GlbKinds /\ objects = made[r])
        /\ (Returned(r) /\ loaded[r] = "raised") =>
              IF kind[r] \in GlbKinds
              THEN IF fault[r] = NoFault /\ Len(made[r]) >= 1
                   THEN /\ result[r].kind = "scene"
                        /\ result[r].meshes = SceneOf(made[r])
                   ELSE result[r] = Fallback
              ELSE result[r].kind = "error" /\ written[r] = <<>>

\* a GLB compile whose script raised after two registrations returned the
\* scene of both
C2_Witness ==
    \E r \in Requests :
        /\ Returned(r) /\ loaded[r] = "raised" /\ kind[r] \in GlbKinds
        /\ Len(made[r]) = 2
        /\ result[r].kind = "scene" /\ Len(result[r].meshes) = 2

\* C3 as stated: in every entry point a script that ends with zero
\* registrations yields exactly one mesh, the fallback cube.
C3_Original ==
    \A r \in Requests :
        (Returned(r) /\ loaded[r] = "ok" /\ made[r] = <<>>)
        => (result[r].kind = "fallback" /\ result[r].meshes = <<UnitCube>>)

\* C3 amended: create_glb_from_script yields exactly one mesh, the fallback
\* cube; export_file and export_from_script return the error "No objects
\* found in script" and write no file.
C3_EmptySceneFallback ==
    \A r \in Requests :
        (Returned(r) /\ loaded[r] = "ok" /\ made[r] = <<>>)
        => IF kind[r] \in GlbKinds
           THEN /\ result[r].kind = "fallback"
                /\ result[r].meshes = <<UnitCube>>
           ELSE /\ result[r] = ErrorResult("No objects found in script")
                /\ written[r] = <<>>

\* a GLB compile of a script without registrations returned the fallback cube
C3_Witness ==
    \E r \in Requests :
        /\ Returned(r) /\ loaded[r] = "ok" /\ made[r] = <<>>
        /\ kind[r] \in GlbKinds /\ result[r] = Fallback

\* C4: when a stage of one registration's pass raises in a GLB compile, the
\* scene returned holds every other registration, in order, and is not the
\* fallback cube.
C4_FailureSkipsOneRegistration ==
    \A r \in Requests :
        (Returned(r) /\ kind[r] \in GlbKinds /\ fault[r].stage \in GlbStages)
        => /\ result[r].kind = "scene"
           /\ result[r].meshes = SceneOf(Without(objects, fault[r].at))

\* C5: once create_glb_from_script is called it returns GLB bytes, the scene
\* or the fallback, and the process goes on.
C5_NoExceptionEscapes ==
    \A r \in Requests :
        (Returned(r) /\ kind[r] \in GlbKinds
            /\ result[r] # ErrorResult("No file being watched or file not found"))
        => (result[r].kind \in {"scene", "fallback"} /\ proc = "up")

\* C6: in a GLB compile the scene is the registry sequence: after i passes of
\* the loop it holds the first i registrations, each with its Solid, material
\* and name, in order; the scene returned has one geometry per registration,
\* two registrations of one name included.
C6_SceneIsRegistrySequence ==
    \A r \in Requests :
        kind[r] \in GlbKinds =>
            /\ pc[r] = "collect" =>
                  /\ Len(scene[r]) = idx[r]
                  /\ \A i \in 1..idx[r] :
                        /\ scene[r][i].obj = objects[i].obj
                        /\ scene[r][i].material = objects[i].material
                        /\ scene[r][i].name = objects[i].name
            /\ (Returned(r) /\ result[r].kind = "scene") =>
                  /\ Len(result[r].meshes) = Len(made[r])
                  /\ \A i \in 1..Len(made[r]) :
                        /\ result[r].meshes[i].obj = made[r][i].obj
                        /\ result[r].meshes[i].material = made[r][i].material
                        /\ result[r].meshes[i].name = made[r][i].name

\* a scene of two geometries that carry the same name was returned
C6_Witness ==
    \E r \in Requests :
        /\ Returned(r) /\ kind[r] \in GlbKinds /\ result[r].kind = "scene"
        /\ Len(result[r].meshes) = 2
        /\ result[r].meshes[1].name = result[r].meshes[2].name
        /\ result[r].meshes[1].obj # result[r].meshes[2].obj

\* C7: registration leaves every Solid as O3D.__init__ built it: its uvMapper
\* attribute is still the default box mapper (nothing else in the model sets
\* the attribute).
C7_RegistrationLeavesSolidUnchanged ==
    \A s \in 1..Len(uvMapperOf) : uvMapperOf[s] = "uvBoxMap"

\* C8: a step of the decorator appends exactly one registration to the
\* registry, named by the name argument or, when that is absent (None or the
\* empty string), by the function's own name, with material 'basic' for the
\* bare use; it calls the producer once (at most one new Solid) and leaves the
\* function's name bound to the function. A later call of the producer builds
\* a Solid and appends nothing.
C8_AddRegistersOnceAndReturnsFunc ==
    [][ /\ (op'.type = "add" /\ made' # made) =>
              /\ Len(objects') = Len(objects) + 1
              /\ SubSeq(objects', 1, Len(objects)) = objects
              /\ objects'[Len(objects')].name =
                    (IF op'.name \in {None, ""} THEN op'.f ELSE op'.name)
              /\ objects'[Len(objects')].material =
                    (IF op'.material = "bare" THEN "basic" ELSE op'.material)
              /\ Len(uvMapperOf') \in {Len(uvMapperOf), Len(uvMapperOf) + 1}
              /\ binding'[op'.f] = "func"
        /\ (op'.type = "call" /\ uvMapperOf' # uvMapperOf) =>
              /\ objects' = objects
              /\ Len(uvMapperOf') = Len(uvMapperOf) + 1
      ]_vars

\* glass was registered under its own name and then called again: still one
\* registration
C8_Witness ==
    /\ op.type = "call" /\ op.f = "glass"
    /\ Len(objects) = 1 /\ objects[1].name = "glass"
    /\ Len(uvMapperOf) = 2

\* C9: while one handler is between its clear_objects and its last read of
\* boxy.objects, no other handler has begun its reload, its clear or its
\* script: every other request is waiting, or over.
C9_CompilesDoNotInterleave ==
    \A r1, r2 \in Requests :
        (r1 # r2 /\ InCompile(r1)) => ~Entered(r2)

\* a second request arrived while a script was running and has to wait
C9_Witness ==
    \E r1, r2 \in Requests :
        /\ r1 # r2 /\ pc[r1] = "script" /\ Len(objects) >= 1
        /\ pc[r2] = "queued"

\* the viewers of the last file change whose socket accepts a send
Owed == {c \in audience : sock[c] = "open" /\ c \in connected_clients}

\* C10: after every file change, once the watcher is no longer sending, every
\* viewer that was connected when the file changed and whose socket accepts
\* the send has been sent file_changed; this holds for every later change too.
C10_EveryChangeReachesViewers ==
    watcher \in {"waiting", "dead"} => Owed \subseteq delivered

\* absent or a number
OptScalar(v) == v = NoneV \/ IsScalar(v)

\* C11: with a scalar x and each of y, z absent or a number, rewrite_coords
\* returns (x, y if given else x, z if given else x) and rewrite_coords2
\* returns (x, y if given else x); with a sequence of three (two) numbers and
\* nothing else, the result holds the elements of x in order.
C11_ScalarBroadcastsFromX ==
    /\ (call.fn = "rewrite_coords" /\ IsScalar(call.args[1])
            /\ OptScalar(call.args[2]) /\ OptScalar(call.args[3]))
       => /\ out.kind = "return"
          /\ out.v.v[1] = call.args[1]
          /\ out.v.v[2] = (IF call.args[2] = NoneV THEN call.args[1] ELSE call.args[2])
          /\ out.v.v[3] = (IF call.args[3] = NoneV THEN call.args[1] ELSE call.args[3])
          /\ Len(out.v.v) = 3
    /\ (call.fn = "rewrite_coords2" /\ IsScalar(call.args[1]) /\ OptScalar(call.args[2]))
       => /\ out.kind = "return"
          /\ out.v.v[1] = call.args[1]
          /\ out.v.v[2] = (IF call.args[2] = NoneV THEN call.args[1] ELSE call.args[2])
          /\ Len(out.v.v) = 2
    /\ (call.fn = "rewrite_coords" /\ call.args[1] \in Triples
            /\ call.args[2] = NoneV /\ call.args[3] = NoneV)
       => out = Returns(call.args[1])
    /\ (call.fn = "rewrite_coords2" /\ call.args[1] \in Pairs /\ call.args[2] = NoneV)
       => out = Returns(call.args[1])

\* rewrite_coords(1, -1) gave (1, -1, 1): z comes from x, not from y
C11_Witness ==
    /\ call = [fn |-> "rewrite_coords", args |-> <<Num(1), Num(-1), NoneV>>]
    /\ out = Returns(SeqV(<<Num(1), Num(-1), Num(1)>>))

\* the argument shapes a normalizer of arity n accepts
ValidShape(args, n) ==
    \/ IsScalar(args[1]) /\ \A i \in 2..Len(args) : OptScalar(args[i])
    \/ /\ args[1].t = "seq" /\ Len(args[1].v) = n
       /\ \A i \in 2..Len(args) : args[i] = NoneV

\* C12: a call of either normalizer with any other argument shape raises and
\* returns nothing (whatever the class of the error).
C12_OtherShapesRejected ==
    /\ (call.fn = "rewrite_coords" /\ ~ValidShape(call.args, 3)) => out.kind = "raise"
    /\ (call.fn = "rewrite_coords2" /\ ~ValidShape(call.args, 2)) => out.kind = "raise"

\* the calls that build a round primitive or a revolve
Tessellating == {"Circle", "Sphere", "Cylinder", "revolve", "RoundedRectangle"}

\* C13: default_segments is what the last set_default_segments call set (no
\* other library call changes it), and every round primitive or revolve that
\* reached the kernel passed its own segments when that is not 0 and
\* default_segments when it is 0.
C13_SegmentsZeroMeansDefault ==
    /\ [](  (call.fn \in Tessellating /\ out.kind = "return")
            => /\ Len(kernel) >= 1
               /\ kernel[1].segments =
                     (IF call.segments # 0 THEN call.segments ELSE default_segments))
    /\ [][ IF call'.fn = "set_default_segments"
           THEN default_segments' = call'.args[1]
           ELSE default_segments' = default_segments ]_vars

\* after set_default_segments(100) a Sphere built without segments asked the
\* kernel for 100
C13_Witness ==
    /\ call.fn = "Sphere" /\ call.segments = 0
    /\ default_segments = 100
    /\ kernel[1].segments = 100

\* C14: whenever one of r1, d1 is given, the second radius handed to the kernel
\* is r2 if r2 is given, d2 / 2 if only d2 is given, and the first radius if
\* neither is given.
C14_CylinderEndsResolvedIndependently ==
    (call.fn = "Cylinder" /\ (call.r1 # NoneV \/ call.d1 # NoneV))
    => /\ out.kind = "return"
       /\ kernel[1].r2 = (IF call.r2 # NoneV THEN call.r2
                          ELSE IF call.d2 # NoneV THEN Half(call.d2)
                          ELSE kernel[1].r1)

\* C15: for a Solid and a triple of numbers (a Profile and a pair), + issues
\* exactly one kernel translate by c and - exactly one kernel translate by -c,
\* and nothing else; (S + c) - c issues the two translates, whose offsets sum
\* to zero on every axis.
C15_CoordinateOperandTranslates ==
    /\ (call.fn = "binop" /\ call.o \in {"+", "-"}
            /\ call.right \in (IF call.cls = "O3D" THEN Triples ELSE Pairs))
       => /\ out = Returns([t |-> call.cls])
          /\ Len(kernel) = 1
          /\ kernel[1].fn = "translate"
          /\ Len(kernel[1].v.v) = Dim(call.cls)
          /\ \A i \in 1..Dim(call.cls) :
                kernel[1].v.v[i].v =
                   (IF call.o = "+" THEN call.right.v[i].v ELSE 0 - call.right.v[i].v)
    /\ call.fn = "addsub"
       => /\ out = Returns([t |-> call.cls])
          /\ Len(kernel) = 2
          /\ kernel[1].fn = "translate" /\ kernel[2].fn = "translate"
          /\ kernel[1].v = call.right
          /\ \A i \in 1..Dim(call.cls) : kernel[1].v.v[i].v + kernel[2].v.v[i].v = 0

\* a Solid had (1, 0, -1) added and subtracted again: translate by (1, 0, -1),
\* then by (-1, 0, 1)
C15_Witness ==
    /\ call = [fn |-> "addsub", cls |-> "O3D", right |-> SeqV(<<Num(1), Num(0), Num(-1)>>)]
    /\ Len(kernel) = 2
    /\ kernel[2].v = SeqV(<<Num(-1), Num(0), Num(1)>>)

\* a Profile and a Solid meet in one call
MixedCall ==
    \/ /\ call.fn = "binop"
       /\ call.right.t \in Wrapped /\ call.right.t # call.cls
    \/ /\ call.fn \in {"hull", "union"}
       /\ \E i, j \in 1..Len(call.elems) :
             call.elems[i].t = "O2D" /\ call.elems[j].t = "O3D"

\* C16: a combinator given a Profile together with a Solid raises TypeMismatch
\* itself: nothing is handed to the kernel and nothing is returned.
C16_MixedDimensionalityRejected ==
    MixedCall => (out = Raises("TypeMismatch") /\ kernel = <<>>)

\* C18: for the normal of every face with area, the three projection weights
\* are 0 or 1 and exactly one is 1: (Y,Z) when |nx| is largest, (X,Z) when |ny|
\* is largest and exceeds |nx|, (X,Y) when |nz| exceeds both; the uv returned
\* is that one projection of the vertex.
C18_ExactlyOneProjection ==
    call.fn = "gen_uv" =>
        LET n == call.normal
            v == call.vertex
            w == out.v.w
        IN /\ {w.xy, w.yz, w.xz} \subseteq {0, 1}
           /\ w.xy + w.yz + w.xz = 1
           /\ w.yz = 1 <=> (Abs(n[1]) >= Abs(n[2]) /\ Abs(n[1]) >= Abs(n[3]))
           /\ w.xz = 1 <=> (Abs(n[2]) > Abs(n[1]) /\ Abs(n[2]) >= Abs(n[3]))
           /\ w.xy = 1 <=> (Abs(n[3]) > Abs(n[1]) /\ Abs(n[3]) > Abs(n[2]))
           /\ out.v.uv = (IF w.yz = 1 THEN <<v[2], v[3]>>
                          ELSE IF w.xz = 1 THEN <<v[1], v[3]>>
                          ELSE <<v[1], v[2]>>)

\* a normal whose three components tie: the (Y,Z) projection alone was used
C18_Witness ==
    /\ call.fn = "gen_uv"
    /\ Abs(call.normal[1]) = Abs(call.normal[2])
    /\ Abs(call.normal[2]) = Abs(call.normal[3])
    /\ out.v.w = [xy |-> 0, yz |-> 1, xz |-> 0]
    /\ out.v.uv = <<call.vertex[2], call.vertex[3]>>

\* C17: in the scene a GLB compile returns, every registration made with a
\* uvMapper override was mapped by that override and every registration made
\* without one by the default box mapper (each pass of the loop runs to_mesh,
\* the two clean-ups, the vertex normals, the mapper and the tagging in this
\* order; the mapper is the last thing that can differ).
C17_EffectiveMapperPerRegistration ==
    \A r \in Requests :
        (Returned(r) /\ kind[r] \in GlbKinds /\ result[r].kind = "scene")
        => \A i \in 1..Len(result[r].meshes) :
              result[r].meshes[i].uv =
                 (IF override[i] # None THEN override[i] ELSE "uvBoxMap")

\* C19: when exec_module is about to start the script, in any entry point,
\* default_segments is 0.
C19_DefaultSegmentsResetPerCompile ==
    \A r \in Requests : pc[r] = "load" => default_segments = 0

\* a script is about to run after the reload threw away the 100 an earlier
\* script had set
C19_Witness ==
    \E r \in Requests :
        pc[r] = "load" /\ droppedSegments = 100 /\ default_segments = 0

\* C20: no operation on connected_clients fails: the watcher never dies on the
\* set changing under its iteration, no websocket handler dies on removing a
\* client that is no longer in the set, and a client whose handler is over is
\* not in the set.
C20_SetOperationsNeverFail ==
    /\ watcher # "dead"
    /\ wsError = {}
    /\ \A c \in Clients : wsPc[c] \in {"ended", "failed"} => c \notin connected_clients

====
